---- MODULE Spec2Model ----
(***************************************************************************)
(* State-machine model of the per-camera stream supervisor                 *)
(* (StreamManager, src/unnamed/part_000) together with the process         *)
(* launcher events, the Node timer queue and the HLS output directories    *)
(* it acts on.                                                             *)
(*                                                                         *)
(* Every handler of the source is a pure operator over a state record S    *)
(* (streams, procs, timers, hls plus the effects of the running handler);  *)
(* an action applies one whole handler to the current state and commits    *)
(* the result.                                                             *)
(*                                                                         *)
(* Spec is the supervisor; SpecDelay applies _calculateReconnectDelay to   *)
(* attempt counts; SpecPlaylist applies the two playlist routes of the     *)
(* server to what they may find on disk; SpecConfig starts the server on   *)
(* a camera configuration; SpecObservers registers status callbacks and    *)
(* publishes; SpecOptions resolves one optional camera field; SpecRoutes   *)
(* dispatches one request to the stream routes; SpecPlayer is the retry    *)
(* logic of the player page.                                               *)
(***************************************************************************)
EXTENDS Integers, Sequences, FiniteSets, TLC

VARIABLES
    streams,        \* this.streams: cameraId -> session record
    onStatusChange, \* this.onStatusChange: the registered observer or NoCallback
    procs,          \* per camera, the processes launched so far (index = process id)
    signals,        \* live processes that have been sent SIGTERM, as <<cameraId, pid>>
    timers,         \* per camera, the setTimeout calls made so far (index = timer id)
    hls,            \* the output directory of each camera on disk
    serverUp,       \* the Node process of the server is running
    arg,            \* the input of the function or route under study
    ret,            \* what it returned for that input, NotCalled before the call
    stopRequested,  \* history: stopStream ran for the camera, no startStream since
    staleTimers,    \* history: timers <<cameraId, t>> that were pending when stopStream ran
    pub,            \* history: status records published by the last handler
    last,           \* history: what the last handler was and what it did
    page            \* the player page (public/app.js): its retry state and timeouts

vars == <<streams, onStatusChange, procs, signals, timers, hls, serverUp, arg, ret,
          stopRequested, staleTimers, pub, last, page>>

-----------------------------------------------------------------------------
(* Bounds of the model *)

\* processes launched in one behaviour
MaxProcs == 2

\* reconnect timers armed in one behaviour
MaxTimers == 2

\* reconnect rounds followed for a camera whose source stays unreachable
MaxRounds == 3

\* largest attempt count _calculateReconnectDelay is applied to
MaxAttempt == 12

\* lines a manifest file holds after its header
MaxLines == 2

-----------------------------------------------------------------------------
(* Configuration *)

\* config.cameras: the configured cameras, in order
cameras == << [id |-> "cam1", name |-> "Front"], [id |-> "cam2", name |-> "Back"] >>

CameraIds == { cameras[i].id : i \in 1..Len(cameras) }

cameraOf(id) == CHOOSE cam \in { cameras[i] : i \in 1..Len(cameras) } : cam.id = id

\* the cameraId argument when the caller passes none (null, undefined, "")
NoId == ""

\* an identifier no configured camera has
UnknownId == "camX"

IdInputs == CameraIds \cup {NoId, UnknownId}

\* config.reconnection
initialDelay == 1000
maxDelay == 30000
\* backoffMultiplier 1.5 as the fraction MultNum / MultDen
MultNum == 3
MultDen == 2

\* null handle (ffmpegProcess, reconnectTimer)
NULL == 0

NoCallback == "null"
ServerLogger == "logStatus"

-----------------------------------------------------------------------------
(* Strings *)

\* String.prototype.endsWith
endsWith(s, suffix) ==
    /\ Len(s) >= Len(suffix)
    /\ SubSeq(s, Len(s) - Len(suffix) + 1, Len(s)) = suffix

\* String.prototype.includes
includes(s, sub) ==
    \E i \in 1..(Len(s) - Len(sub) + 1) : SubSeq(s, i, i + Len(sub) - 1) = sub

\* err.message of the launcher's error event
ErrMessages == { "ffmpeg exited with code 1: Conversion failed!",
                 "ffmpeg was killed with signal SIGTERM",
                 "ffmpeg exited with code 1: Invalid data found when processing input" }

KilledMessage == "ffmpeg was killed with signal SIGTERM"

\* lines of the process's diagnostic (stderr) stream
StderrLines == { "Connection timed out", "Error while decoding stream #0:0" }

\* entries an output directory may hold
PlaylistFile == "playlist.m3u8"
SegmentFile == "segment_0.ts"
OtherFile == "notes.txt"

\* callbacks a caller may hand to setStatusCallback; the last one throws
\* when it is invoked
Observers == { "observerA", "observerB", "observerThrows" }
ThrowingObservers == { "observerThrows" }

-----------------------------------------------------------------------------
(* The state record a handler works on *)

Cur == [ streams |-> streams,
         procs   |-> procs,
         signals |-> signals,
         timers  |-> timers,
         hls     |-> hls,
         mkdirFails |-> {},   \* cameras whose directory fs.mkdirSync cannot create
         readdirFails |-> {}, \* cameras whose directory fs.readdirSync cannot list
         unlinkFails |-> {},  \* entries fs.unlinkSync cannot delete
         pub     |-> << >>,   \* status records published so far by the handler
         sent    |-> {},      \* processes the handler sent SIGTERM to
         armed   |-> FALSE,   \* the handler armed a timer
         notified |-> << >>,  \* callbacks the handler invoked, in order
         thrown  |-> FALSE ]  \* an exception is propagating out of the handler

-----------------------------------------------------------------------------
(* StreamManager *)

\* setStatusCallback(callback): the new value of this.onStatusChange
setStatusCallback(callback) == callback

\* _updateStatus(cameraId, status, message): the one callback in
\* this.onStatusChange is called with the record, outside any try block
_updateStatus(S, cameraId, status, message) ==
    IF onStatusChange # NoCallback /\ cameraId \in DOMAIN S.streams
    THEN [S EXCEPT !.pub = Append(@,
             [ cameraId          |-> cameraId,
               cameraName        |-> cameraOf(cameraId).name,
               status            |-> status,
               message           |-> message,
               isStreaming       |-> S.streams[cameraId].isStreaming,
               reconnectAttempts |-> S.streams[cameraId].reconnectAttempts ]),
                     !.notified = Append(@, onStatusChange),
                     !.thrown = @ \/ onStatusChange \in ThrowingObservers]
    ELSE S

RECURSIVE Pow(_, _)
Pow(b, n) == IF n = 0 THEN 1 ELSE b * Pow(b, n - 1)

\* _calculateReconnectDelay with Math.ceil in place of Math.floor
_calculateReconnectDelay_ceil(reconnectAttempts) ==
    LET num == initialDelay * Pow(MultNum, reconnectAttempts)
        den == Pow(MultDen, reconnectAttempts)
    IN  IF num <= maxDelay * den THEN (num + den - 1) \div den ELSE maxDelay

\* _calculateReconnectDelay without Math.min(..., maxDelay)
_calculateReconnectDelay_noCap(reconnectAttempts) ==
    (initialDelay * Pow(MultNum, reconnectAttempts)) \div Pow(MultDen, reconnectAttempts)

\* _calculateReconnectDelay(reconnectAttempts):
\* floor(min(initialDelay * backoffMultiplier^n, maxDelay))
_calculateReconnectDelay(reconnectAttempts) ==
    LET num == initialDelay * Pow(MultNum, reconnectAttempts)
        den == Pow(MultDen, reconnectAttempts)
    IN  IF num <= maxDelay * den THEN num \div den ELSE maxDelay

\* _ensureHlsDirectory that cleans the segments but not the playlist
_ensureHlsDirectory_keepManifest(S, cameraId) ==
    IF ~S.hls[cameraId].exists
    THEN IF cameraId \in S.mkdirFails
         THEN [S EXCEPT !.thrown = TRUE]
         ELSE [S EXCEPT !.hls[cameraId] = [exists |-> TRUE, files |-> {}]]
    ELSE IF cameraId \in S.readdirFails THEN S
    ELSE [S EXCEPT !.hls[cameraId].files =
             { f \in @ : ~endsWith(f, ".ts") \/ f \in S.unlinkFails }]

\* _ensureHlsDirectory that stops cleaning after the first entry it deleted
_ensureHlsDirectory_oneFilePerCall(S, cameraId) ==
    IF ~S.hls[cameraId].exists
    THEN IF cameraId \in S.mkdirFails
         THEN [S EXCEPT !.thrown = TRUE]
         ELSE [S EXCEPT !.hls[cameraId] = [exists |-> TRUE, files |-> {}]]
    ELSE IF cameraId \in S.readdirFails THEN S
    ELSE LET old == { f \in S.hls[cameraId].files :
                        (endsWith(f, ".ts") \/ endsWith(f, ".m3u8")) /\ f \notin S.unlinkFails }
         IN  IF old = {} THEN S
             ELSE [S EXCEPT !.hls[cameraId].files = @ \ {CHOOSE f \in old : TRUE}]

\* _ensureHlsDirectory(cameraId): mkdirSync is outside any try; a failing
\* readdirSync is caught and ends the clean-up; a failing unlinkSync is caught
\* and skips the entry
_ensureHlsDirectory(S, cameraId) ==
    IF ~S.hls[cameraId].exists
    THEN IF cameraId \in S.mkdirFails
         THEN [S EXCEPT !.thrown = TRUE]
         ELSE [S EXCEPT !.hls[cameraId] = [exists |-> TRUE, files |-> {}]]
    ELSE IF cameraId \in S.readdirFails THEN S
    ELSE [S EXCEPT !.hls[cameraId].files =
             { f \in @ : ~(endsWith(f, ".ts") \/ endsWith(f, ".m3u8"))
                          \/ f \in S.unlinkFails }]

\* the launch at the end of _startFFmpeg: stream.ffmpegProcess = ffmpegCmd...; run()
launch(S, cameraId) ==
    [S EXCEPT !.procs[cameraId] = Append(@, "launched"),
              !.streams[cameraId].ffmpegProcess = Len(S.procs[cameraId]) + 1]

\* _startFFmpeg(cameraId): build the command, ensure the directory, launch
_startFFmpeg(S, cameraId) ==
    IF cameraId \notin DOMAIN S.streams THEN S
    ELSE LET S1 == _ensureHlsDirectory(S, cameraId)
         IN  IF S1.thrown THEN S1 ELSE launch(S1, cameraId)

\* cameraId || config.cameras[0]?.id
targetOf(cameraId) == IF cameraId = NoId THEN cameras[1].id ELSE cameraId

\* startStream falling back to the first camera for an id without a session
startStream_fallbackFirst(S, cameraId) ==
    LET targetCameraId == IF targetOf(cameraId) \in DOMAIN S.streams
                          THEN targetOf(cameraId) ELSE cameras[1].id
    IN  IF S.streams[targetCameraId].isStreaming THEN S
        ELSE LET S1 == _ensureHlsDirectory(S, targetCameraId)
             IN  IF S1.thrown THEN S1 ELSE _startFFmpeg(S1, targetCameraId)

\* startStream(cameraId)
startStream(S, cameraId) ==
    LET targetCameraId == targetOf(cameraId) IN
    IF targetCameraId \notin DOMAIN S.streams THEN S
    ELSE IF S.streams[targetCameraId].isStreaming THEN S
    ELSE LET S1 == _ensureHlsDirectory(S, targetCameraId)
         IN  IF S1.thrown THEN S1 ELSE _startFFmpeg(S1, targetCameraId)

\* the states of a process that has not delivered its terminal event
Alive == {"launched", "running"}

\* clearTimeout(handle): a pending timer leaves the timer queue
clearTimeout(S, cameraId, t) ==
    IF S.timers[cameraId][t].st = "pending"
    THEN [S EXCEPT !.timers[cameraId][t].st = "cancelled"]
    ELSE S

\* ffmpegProcess.kill("SIGTERM"): the signal reaches a process that is still alive
kill(S, cameraId, p) ==
    [S EXCEPT !.sent = @ \cup {p},
              !.signals = IF S.procs[cameraId][p] \in Alive
                          THEN @ \cup {<<cameraId, p>>} ELSE @]

\* stopStream that drops the timer handle without clearTimeout
stopStream_noClearTimeout(S, cameraId) ==
    LET targetCameraId == targetOf(cameraId) IN
    IF targetCameraId \notin DOMAIN S.streams THEN S
    ELSE
    LET stream == S.streams[targetCameraId]
        S1 == [S EXCEPT !.streams[targetCameraId].reconnectTimer = NULL]
        S2 == IF stream.ffmpegProcess # NULL
              THEN [kill(S1, targetCameraId, stream.ffmpegProcess)
                      EXCEPT !.streams[targetCameraId].ffmpegProcess = NULL]
              ELSE S1
        S3 == [S2 EXCEPT !.streams[targetCameraId].isStreaming = FALSE,
                         !.streams[targetCameraId].reconnectAttempts = 0]
    IN  _updateStatus(S3, targetCameraId, "stopped", "")

\* stopStream that forgets to reset reconnectAttempts
stopStream_keepAttempts(S, cameraId) ==
    LET targetCameraId == targetOf(cameraId) IN
    IF targetCameraId \notin DOMAIN S.streams THEN S
    ELSE
    LET stream == S.streams[targetCameraId]
        S1 == IF stream.reconnectTimer # NULL
              THEN [clearTimeout(S, targetCameraId, stream.reconnectTimer)
                      EXCEPT !.streams[targetCameraId].reconnectTimer = NULL]
              ELSE S
        S2 == IF stream.ffmpegProcess # NULL
              THEN [kill(S1, targetCameraId, stream.ffmpegProcess)
                      EXCEPT !.streams[targetCameraId].ffmpegProcess = NULL]
              ELSE S1
        S3 == [S2 EXCEPT !.streams[targetCameraId].isStreaming = FALSE]
    IN  _updateStatus(S3, targetCameraId, "stopped", "")

\* stopStream that signals the process but keeps its handle
stopStream_keepHandle(S, cameraId) ==
    LET targetCameraId == targetOf(cameraId) IN
    IF targetCameraId \notin DOMAIN S.streams THEN S
    ELSE
    LET stream == S.streams[targetCameraId]
        S1 == IF stream.reconnectTimer # NULL
              THEN [clearTimeout(S, targetCameraId, stream.reconnectTimer)
                      EXCEPT !.streams[targetCameraId].reconnectTimer = NULL]
              ELSE S
        S2 == IF stream.ffmpegProcess # NULL
              THEN kill(S1, targetCameraId, stream.ffmpegProcess)
              ELSE S1
        S3 == [S2 EXCEPT !.streams[targetCameraId].isStreaming = FALSE,
                         !.streams[targetCameraId].reconnectAttempts = 0]
    IN  _updateStatus(S3, targetCameraId, "stopped", "")

\* stopStream(cameraId)
stopStream(S, cameraId) ==
    LET targetCameraId == targetOf(cameraId) IN
    IF targetCameraId \notin DOMAIN S.streams THEN S
    ELSE
    LET stream == S.streams[targetCameraId]
        S1 == IF stream.reconnectTimer # NULL
              THEN [clearTimeout(S, targetCameraId, stream.reconnectTimer)
                      EXCEPT !.streams[targetCameraId].reconnectTimer = NULL]
              ELSE S
        S2 == IF stream.ffmpegProcess # NULL
              THEN [kill(S1, targetCameraId, stream.ffmpegProcess)
                      EXCEPT !.streams[targetCameraId].ffmpegProcess = NULL]
              ELSE S1
        S3 == [S2 EXCEPT !.streams[targetCameraId].isStreaming = FALSE,
                         !.streams[targetCameraId].reconnectAttempts = 0]
    IN  _updateStatus(S3, targetCameraId, "stopped", "")

\* _scheduleReconnect without the already-scheduled check
_scheduleReconnect_noGuard(S, cameraId) ==
    IF cameraId \notin DOMAIN S.streams
    THEN S
    ELSE
    LET delay == _calculateReconnectDelay(S.streams[cameraId].reconnectAttempts)
    IN  [S EXCEPT
           !.timers[cameraId] = Append(@, [delay |-> delay, st |-> "pending"]),
           !.streams[cameraId].reconnectTimer = Len(S.timers[cameraId]) + 1,
           !.armed = TRUE]

\* _scheduleReconnect(cameraId)
_scheduleReconnect(S, cameraId) ==
    IF cameraId \notin DOMAIN S.streams \/ S.streams[cameraId].reconnectTimer # NULL
    THEN S
    ELSE
    LET delay == _calculateReconnectDelay(S.streams[cameraId].reconnectAttempts)
    IN  [S EXCEPT
           !.timers[cameraId] = Append(@, [delay |-> delay, st |-> "pending"]),
           !.streams[cameraId].reconnectTimer = Len(S.timers[cameraId]) + 1,
           !.armed = TRUE]

\* a timer callback that leaves the handle of the fired timer in the session
reconnectCallback_keepHandle(S, cameraId) ==
    LET S1 == [S EXCEPT !.streams[cameraId].reconnectAttempts = @ + 1]
        S2 == _updateStatus(S1, cameraId, "reconnecting",
                  "Attempt " \o ToString(S1.streams[cameraId].reconnectAttempts))
    IN  IF S2.thrown THEN S2 ELSE _startFFmpeg(S2, cameraId)

\* the setTimeout callback of _scheduleReconnect
reconnectCallback(S, cameraId) ==
    LET S1 == [S EXCEPT !.streams[cameraId].reconnectTimer = NULL,
                        !.streams[cameraId].reconnectAttempts = @ + 1]
        S2 == _updateStatus(S1, cameraId, "reconnecting",
                  "Attempt " \o ToString(S1.streams[cameraId].reconnectAttempts))
    IN  IF S2.thrown THEN S2 ELSE _startFFmpeg(S2, cameraId)

\* a start handler that forgets to reset reconnectAttempts
onStart_keepAttempts(S, cameraId) ==
    _updateStatus([S EXCEPT !.streams[cameraId].isStreaming = TRUE],
                  cameraId, "streaming", "")

\* .on("start", ...)
onStart(S, cameraId) ==
    _updateStatus([S EXCEPT !.streams[cameraId].isStreaming = TRUE,
                            !.streams[cameraId].reconnectAttempts = 0],
                  cameraId, "streaming", "")

\* a stderr handler that takes a connection or decoder message for a failure
onStderr_failOnErrorText(S, cameraId, stderrLine) ==
    IF includes(stderrLine, "timed out") \/ includes(stderrLine, "Error while decoding")
    THEN _updateStatus([S EXCEPT !.streams[cameraId].isStreaming = FALSE],
                       cameraId, "error", stderrLine)
    ELSE S

\* .on("stderr", ...): logging only
onStderr(S, cameraId, stderrLine) == S

\* isDecodingError of the error handler
isDecodingError(message) ==
    \/ includes(message, "decode")
    \/ includes(message, "Invalid data")
    \/ includes(message, "error while decoding")

\* a teardown that publishes the status before it updates the session
teardown_publishFirst(S, cameraId, status, message) ==
    LET S1 == _updateStatus(S, cameraId, status, message)
        S2 == [S1 EXCEPT !.streams[cameraId].isStreaming = FALSE,
                         !.streams[cameraId].ffmpegProcess = NULL]
    IN  IF S2.thrown THEN S2 ELSE _scheduleReconnect(S2, cameraId)

\* the state updates both terminal handlers share, then publish and schedule;
\* an exception of the status callback leaves the handler before the schedule
teardown(S, cameraId, status, message) ==
    LET S1 == [S EXCEPT !.streams[cameraId].isStreaming = FALSE,
                        !.streams[cameraId].ffmpegProcess = NULL]
        S2 == _updateStatus(S1, cameraId, status, message)
    IN  IF S2.thrown THEN S2 ELSE _scheduleReconnect(S2, cameraId)

\* an error handler without the decoding-error early return
onError_alwaysFatal(S, cameraId, message) ==
    teardown(S, cameraId, "error", message)

\* .on("error", ...)
onError(S, cameraId, message) ==
    IF isDecodingError(message) /\ S.streams[cameraId].isStreaming THEN S
    ELSE teardown(S, cameraId, "error", message)

\* an end handler that publishes but does not schedule the reconnect
onEnd_noSchedule(S, cameraId) ==
    _updateStatus([S EXCEPT !.streams[cameraId].isStreaming = FALSE,
                            !.streams[cameraId].ffmpegProcess = NULL],
                  cameraId, "ended", "")

\* .on("end", ...)
onEnd(S, cameraId) == teardown(S, cameraId, "ended", "")

RECURSIVE startFrom(_, _)
\* config.cameras.forEach((camera) => this.startStream(camera.id)), from the i-th on
startFrom(S, i) ==
    IF i > Len(cameras) \/ S.thrown THEN S
    ELSE startFrom(startStream(S, cameras[i].id), i + 1)

\* startAllStreams()
startAllStreams(S) == startFrom(S, 1)

RECURSIVE stopFrom(_, _)
\* config.cameras.forEach((camera) => this.stopStream(camera.id)), from the i-th on
stopFrom(S, i) ==
    IF i > Len(cameras) \/ S.thrown THEN S
    ELSE stopFrom(stopStream(S, cameras[i].id), i + 1)

\* stopAllStreams()
stopAllStreams(S) == stopFrom(S, 1)

-----------------------------------------------------------------------------
(* The launcher: a process that has delivered its terminal event is gone *)

exited(S, cameraId, p) ==
    [S EXCEPT !.procs[cameraId][p] = "dead", !.signals = @ \ {<<cameraId, p>>}]

-----------------------------------------------------------------------------
(* Initial state: the server module has built the StreamManager and *)
(* registered its status logger; nothing has been started           *)

\* the player page after DOMContentLoaded: no retry in progress, no timeout
\* set, the player loaded without error
PageLoaded == [ isRetrying   |-> FALSE,
                retryTimeout |-> NULL,
                timeouts     |-> << >>,
                playerError  |-> NULL,
                awaiting     |-> FALSE,
                event        |-> "load" ]

\* the session record the constructor builds (without its camera reference)
NoSession == [ ffmpegProcess     |-> NULL,
               isStreaming       |-> FALSE,
               reconnectAttempts |-> 0,
               reconnectTimer    |-> NULL ]

\* no function or route has been called
NotCalled == << >>

\* the handlers whose caller is an Express route: Express catches what they throw
RouteOps == {"start", "stop"}

\* the state the server module builds before it listens
Built ==
    /\ streams = [ id \in CameraIds |-> NoSession ]
    /\ onStatusChange = ServerLogger
    /\ procs = [ id \in CameraIds |-> << >> ]
    /\ signals = {}
    /\ timers = [ id \in CameraIds |-> << >> ]
    /\ hls = [ id \in CameraIds |->
                 IF id = cameras[1].id
                 THEN [exists |-> FALSE, files |-> {}]
                 ELSE [exists |-> TRUE, files |-> {SegmentFile, OtherFile}] ]
    /\ serverUp = TRUE
    /\ page = PageLoaded
    /\ stopRequested = [ id \in CameraIds |-> FALSE ]
    /\ staleTimers = {}
    /\ pub = << >>
    /\ last = [ op |-> "init", id |-> NoId, msg |-> "", before |-> NoSession,
                sent |-> {}, armed |-> FALSE, thrown |-> FALSE ]

Init ==
    /\ Built
    /\ arg = NotCalled
    /\ ret = NotCalled

RECURSIVE total(_, _)
\* the number of entries of f over the cameras from the i-th on
total(f, i) == IF i > Len(cameras) THEN 0 ELSE Len(f[cameras[i].id]) + total(f, i + 1)

\* the handler's result becomes the next state
Commit(S, op, id, msg) ==
    /\ serverUp
    /\ total(S.procs, 1) <= MaxProcs
    /\ total(S.timers, 1) <= MaxTimers
    /\ streams' = S.streams
    /\ procs' = S.procs
    /\ signals' = S.signals
    /\ timers' = S.timers
    /\ hls' = S.hls
    /\ pub' = S.pub
    /\ last' = [ op |-> op, id |-> id, msg |-> msg,
                 before |-> IF id \in CameraIds THEN streams[id] ELSE NoSession,
                 sent |-> S.sent, armed |-> S.armed, thrown |-> S.thrown ]
    /\ serverUp' = (S.thrown => op \in RouteOps)
    /\ UNCHANGED <<onStatusChange, arg, ret, page>>

PendingTimersOf(id) ==
    IF id \in CameraIds
    THEN { <<id, t>> : t \in { u \in 1..Len(timers[id]) : timers[id][u].st = "pending" } }
    ELSE {}

\* the directories fs.mkdirSync may be unable to create during one handler
MkdirFailures == { {}, {cameras[1].id} }

Pids == { <<id, p>> : id \in CameraIds, p \in 1..MaxProcs + 1 }
Tids == { <<id, t>> : id \in CameraIds, t \in 1..MaxTimers + 1 }

-----------------------------------------------------------------------------
(* Actions *)

\* POST /api/stream/start: startStream(cameraId); mkdirSync fails for mkdirFails
StartStream(cameraId, mkdirFails) ==
    /\ Commit(startStream([Cur EXCEPT !.mkdirFails = mkdirFails], cameraId),
              "start", targetOf(cameraId), "")
    /\ stopRequested' = [ id \in CameraIds |->
                            IF id = targetOf(cameraId) THEN FALSE ELSE stopRequested[id] ]
    /\ UNCHANGED staleTimers

\* POST /api/stream/stop: stopStream(cameraId)
StopStream(cameraId) ==
    /\ Commit(stopStream(Cur, cameraId), "stop", targetOf(cameraId), "")
    /\ stopRequested' = [ id \in CameraIds |->
                            IF id = targetOf(cameraId) THEN TRUE ELSE stopRequested[id] ]
    /\ staleTimers' = staleTimers \cup PendingTimersOf(targetOf(cameraId))

\* the server's listen callback
StartAllStreams(mkdirFails) ==
    /\ Commit(startAllStreams([Cur EXCEPT !.mkdirFails = mkdirFails]), "startAll", NoId, "")
    /\ stopRequested' = [ id \in CameraIds |-> FALSE ]
    /\ UNCHANGED staleTimers

\* the server's SIGTERM / SIGINT handler
StopAllStreams ==
    /\ Commit(stopAllStreams(Cur), "stopAll", NoId, "")
    /\ stopRequested' = [ id \in CameraIds |-> TRUE ]
    /\ staleTimers' = staleTimers \cup UNION { PendingTimersOf(id) : id \in CameraIds }

\* the launcher confirms that process p of the camera has started
ProcStart(id, p) ==
    /\ p <= Len(procs[id])
    /\ procs[id][p] = "launched"
    /\ Commit(onStart([Cur EXCEPT !.procs[id][p] = "running"], id), "onStart", id, "")
    /\ UNCHANGED <<stopRequested, staleTimers>>

\* process p writes a diagnostic line
ProcStderr(id, p, line) ==
    /\ p <= Len(procs[id])
    /\ procs[id][p] \in Alive
    /\ Commit(onStderr(Cur, id, line), "onStderr", id, line)
    /\ UNCHANGED <<stopRequested, staleTimers>>

\* process p writes a segment and its manifest
ProcWrite(id, p) ==
    /\ p <= Len(procs[id])
    /\ procs[id][p] = "running"
    /\ hls[id].exists
    /\ Commit([Cur EXCEPT !.hls[id].files = @ \cup {SegmentFile, PlaylistFile}],
              "write", id, "")
    /\ UNCHANGED <<stopRequested, staleTimers>>

\* the terminal event of process p: it failed (spawn failure, non-zero exit, signal)
ProcError(id, p, message) ==
    /\ p <= Len(procs[id])
    /\ procs[id][p] \in Alive
    /\ message = KilledMessage => <<id, p>> \in signals
    /\ Commit(onError(exited(Cur, id, p), id, message), "onError", id, message)
    /\ UNCHANGED <<stopRequested, staleTimers>>

\* the terminal event of process p: it exited with code 0
ProcEnd(id, p) ==
    /\ p <= Len(procs[id])
    /\ procs[id][p] = "running"
    /\ Commit(onEnd(exited(Cur, id, p), id), "onEnd", id, "")
    /\ UNCHANGED <<stopRequested, staleTimers>>

\* the timer queue runs the callback of pending timer t
TimerFire(id, t) ==
    /\ t <= Len(timers[id])
    /\ timers[id][t].st = "pending"
    /\ Commit(reconnectCallback([Cur EXCEPT !.timers[id][t].st = "fired"], id),
              "timer", id, "")
    /\ UNCHANGED <<stopRequested, staleTimers>>

Next ==
    \/ \E cameraId \in IdInputs, mkdirFails \in MkdirFailures :
          StartStream(cameraId, mkdirFails)
    \/ \E cameraId \in IdInputs : StopStream(cameraId)
    \/ \E mkdirFails \in MkdirFailures : StartAllStreams(mkdirFails)
    \/ StopAllStreams
    \/ \E pid \in Pids : ProcStart(pid[1], pid[2])
    \/ \E pid \in Pids, line \in StderrLines : ProcStderr(pid[1], pid[2], line)
    \/ \E pid \in Pids : ProcWrite(pid[1], pid[2])
    \/ \E pid \in Pids, message \in ErrMessages : ProcError(pid[1], pid[2], message)
    \/ \E pid \in Pids : ProcEnd(pid[1], pid[2])
    \/ \E tid \in Tids : TimerFire(tid[1], tid[2])

Spec == Init /\ [][Next]_vars

-----------------------------------------------------------------------------
(* The reconnect delay as a function: _calculateReconnectDelay applied to  *)
(* a pair of attempt counts                                                *)

InitDelay ==
    /\ Built
    /\ arg \in (0..MaxAttempt) \X (0..MaxAttempt)
    /\ ret = NotCalled

\* _calculateReconnectDelay(n) for both attempt counts of the pair
CalculateReconnectDelay ==
    /\ ret = NotCalled
    /\ ret' = << _calculateReconnectDelay(arg[1]), _calculateReconnectDelay(arg[2]) >>
    /\ UNCHANGED <<page, streams, onStatusChange, procs, signals, timers, hls, serverUp, arg,
                   stopRequested, staleTimers, pub, last>>

NextDelay == CalculateReconnectDelay

SpecDelay == InitDelay /\ [][NextDelay]_vars

-----------------------------------------------------------------------------
(* The manifest routes of the server (src/README.md): the text of         *)
(* playlist.m3u8 is a string, lines end in "\n"                           *)

\* \s of a JavaScript regular expression, for the characters files hold here
isWhitespace(c) == c \in {" ", "\t", "\n", "\r"}

\* String.prototype.startsWith(prefix, i - 1)
startsWithAt(s, i, prefix) ==
    /\ i + Len(prefix) - 1 <= Len(s)
    /\ SubSeq(s, i, i + Len(prefix) - 1) = prefix

\* the least of a set of positions
firstOf(ok) == CHOOSE j \in ok : \A k \in ok : j <= k

\* \s*: the first position from i on that holds no whitespace
skipWhitespace(s, i) ==
    firstOf({ j \in i..(Len(s) + 1) : j > Len(s) \/ ~isWhitespace(SubSeq(s, j, j)) })

RECURSIVE removeEndlist(_, _)
\* playlistContent.replace(/#EXT-X-ENDLIST\s*\n?/g, ""), from position i on
removeEndlist(s, i) ==
    IF i > Len(s) THEN ""
    ELSE LET j == firstOf({ k \in i..(Len(s) + 1) :
                             k > Len(s) \/ startsWithAt(s, k, "#EXT-X-ENDLIST") })
         IN  IF j > Len(s) THEN SubSeq(s, i, Len(s))
             ELSE SubSeq(s, i, j - 1)
                  \o removeEndlist(s, skipWhitespace(s, j + Len("#EXT-X-ENDLIST")))

\* the position of the line terminator of the line that holds position i
lineEnd(s, i) ==
    firstOf({ j \in i..(Len(s) + 1) : j > Len(s) \/ SubSeq(s, j, j) = "\n" })

\* no character of s is whitespace
noWhitespace(s) == \A i \in 1..Len(s) : ~isWhitespace(SubSeq(s, i, i))

\* s is one or more decimal digits
isDigits(s) ==
    /\ Len(s) >= 1
    /\ \A i \in 1..Len(s) :
         SubSeq(s, i, i) \in {"0", "1", "2", "3", "4", "5", "6", "7", "8", "9"}

\* the line matches /^([^#\/\s][^\s]*\.ts)$/m
isSegmentLine(line) ==
    /\ Len(line) >= 4
    /\ SubSeq(line, 1, 1) \notin {"#", "/"}
    /\ noWhitespace(line)
    /\ endsWith(line, ".ts")

\* the line matches /^(segment_\d+\.ts)$/m
isLegacySegmentLine(line) ==
    /\ startsWithAt(line, 1, "segment_")
    /\ endsWith(line, ".ts")
    /\ Len(line) > Len("segment_") + Len(".ts")
    /\ isDigits(SubSeq(line, Len("segment_") + 1, Len(line) - Len(".ts")))

RECURSIVE rewriteSegments(_, _, _)
\* playlistContent.replace(/^([^#\/\s][^\s]*\.ts)$/gm, `/hls/${cameraId}/$1`)
rewriteSegments(s, i, cameraId) ==
    IF i > Len(s) THEN ""
    ELSE LET e    == lineEnd(s, i)
             line == SubSeq(s, i, e - 1)
             out  == IF isSegmentLine(line)
                     THEN "/hls/" \o cameraId \o "/" \o line ELSE line
         IN  IF e > Len(s) THEN out
             ELSE out \o "\n" \o rewriteSegments(s, e + 1, cameraId)

RECURSIVE rewriteLegacySegments(_, _, _)
\* playlistContent.replace(/^(segment_\d+\.ts)$/gm, `/hls/${firstCameraId}/$1`)
rewriteLegacySegments(s, i, firstCameraId) ==
    IF i > Len(s) THEN ""
    ELSE LET e    == lineEnd(s, i)
             line == SubSeq(s, i, e - 1)
             out  == IF isLegacySegmentLine(line)
                     THEN "/hls/" \o firstCameraId \o "/" \o line ELSE line
         IN  IF e > Len(s) THEN out
             ELSE out \o "\n" \o rewriteLegacySegments(s, e + 1, firstCameraId)

MpegUrl == "application/vnd.apple.mpegurl"
Json == "application/json"

\* an empty playlist that lacks the target duration
emptyPlaylist_noTargetDuration(comment) ==
    "#EXTM3U\n#EXT-X-VERSION:6\n#EXT-X-MEDIA-SEQUENCE:0\n" \o comment \o "\n"

\* const emptyPlaylist = `...` of the per-camera route, ending in the given comment
emptyPlaylist(comment) ==
    "#EXTM3U\n#EXT-X-VERSION:6\n#EXT-X-TARGETDURATION:2\n#EXT-X-MEDIA-SEQUENCE:0\n"
    \o "#EXT-X-INDEPENDENT-SEGMENTS\n" \o comment \o "\n"

\* the per-camera route without the removal of #EXT-X-ENDLIST
getCameraPlaylist_keepEndlist(cameraId, file) ==
    IF file.exists /\ ~file.readable
    THEN [ route |-> "camera", status |-> 200, contentType |-> MpegUrl,
           body |-> emptyPlaylist("# Error reading playlist, retrying...") ]
    ELSE IF file.exists
    THEN [ route |-> "camera", status |-> 200, contentType |-> MpegUrl,
           body |-> rewriteSegments(file.content, 1, cameraId) ]
    ELSE [ route |-> "camera", status |-> 200, contentType |-> MpegUrl,
           body |-> emptyPlaylist("# Stream is starting, please wait...") ]

\* GET /api/stream/:cameraId/playlist.m3u8
getCameraPlaylist(cameraId, file) ==
    IF file.exists /\ ~file.readable
    THEN [ route |-> "camera", status |-> 200, contentType |-> MpegUrl,
           body |-> emptyPlaylist("# Error reading playlist, retrying...") ]
    ELSE IF file.exists
    THEN [ route |-> "camera", status |-> 200, contentType |-> MpegUrl,
           body |-> rewriteSegments(removeEndlist(file.content, 1), 1, cameraId) ]
    ELSE [ route |-> "camera", status |-> 200, contentType |-> MpegUrl,
           body |-> emptyPlaylist("# Stream is starting, please wait...") ]

\* GET /api/stream/playlist.m3u8 (legacy, first camera)
getLegacyPlaylist(file) ==
    IF file.exists /\ ~file.readable
    THEN [ route |-> "legacy", status |-> 500, contentType |-> Json,
           body |-> "{\"error\":\"Error reading playlist\"}" ]
    ELSE IF file.exists
    THEN [ route |-> "legacy", status |-> 200, contentType |-> MpegUrl,
           body |-> rewriteLegacySegments(file.content, 1, cameras[1].id) ]
    ELSE [ route |-> "legacy", status |-> 404, contentType |-> Json,
           body |-> "{\"error\":\"Playlist not found. Stream may not be started.\"}" ]

\* lines the transcoder writes into a manifest after its header
ManifestLines == { "#EXTINF:2.000000,", "segment_0.ts", "segment_1.ts",
                   "#EXT-X-ENDLIST", "#EXT-X-PROGRAM-DATE-TIME:2025-01-01T00:00:00.000+0000" }

RECURSIVE joinLines(_)
\* the text of a file made of the given lines
joinLines(lines) ==
    IF lines = << >> THEN "" ELSE Head(lines) \o "\n" \o joinLines(Tail(lines))

\* the manifests playlist.m3u8 may hold
ManifestTexts ==
    { "#EXTM3U\n#EXT-X-VERSION:6\n#EXT-X-TARGETDURATION:2\n" \o joinLines(lines) :
        lines \in UNION { [1..n -> ManifestLines] : n \in 0..MaxLines } }

\* what the route finds at path.resolve(hlsOutputDir, cameraId, "playlist.m3u8"):
\* nothing, a file that cannot be read, or a manifest
PlaylistFiles ==
    { [exists |-> FALSE, readable |-> FALSE, content |-> ""],
      [exists |-> TRUE, readable |-> FALSE, content |-> ""] }
    \cup { [exists |-> TRUE, readable |-> TRUE, content |-> text] : text \in ManifestTexts }

\* req.params.cameraId
RouteIds == CameraIds \cup {UnknownId}

InitPlaylist ==
    /\ Built
    /\ arg \in [ cameraId : RouteIds, file : PlaylistFiles ]
    /\ ret = NotCalled

GetCameraPlaylist ==
    /\ ret = NotCalled
    /\ ret' = getCameraPlaylist(arg.cameraId, arg.file)
    /\ UNCHANGED <<page, streams, onStatusChange, procs, signals, timers, hls, serverUp, arg,
                   stopRequested, staleTimers, pub, last>>

\* the legacy route reads the file of the first camera
GetLegacyPlaylist ==
    /\ ret = NotCalled
    /\ arg.cameraId = cameras[1].id
    /\ ret' = getLegacyPlaylist(arg.file)
    /\ UNCHANGED <<page, streams, onStatusChange, procs, signals, timers, hls, serverUp, arg,
                   stopRequested, staleTimers, pub, last>>

NextPlaylist == GetCameraPlaylist \/ GetLegacyPlaylist

SpecPlaylist == InitPlaylist /\ [][NextPlaylist]_vars

-----------------------------------------------------------------------------
(* Start-up of the server on a camera configuration: parseCameras          *)
(* (config.js), the StreamManager constructor and the listen callback      *)

\* a field the camera entry does not carry
Undefined == "undefined"

\* the entries the i-th camera of the CAMERAS array may be
CameraEntries(i) ==
    [ id      : {"cam" \o ToString(i), Undefined},
      name    : {"Camera " \o ToString(i), Undefined},
      rtspUrl : {"rtsp://admin:secret" \o ToString(i) \o "@10.0.0." \o ToString(i) \o "/live",
                 "rtsp://viewer:hunter" \o ToString(i) \o "@10.0.1." \o ToString(i) \o "/live",
                 Undefined} ]

\* what JSON.parse(CAMERAS) may yield: an array of up to two entries
Configs ==
    { << >> } \cup { << e >> : e \in CameraEntries(1) }
              \cup { << e1, e2 >> : e1 \in CameraEntries(1), e2 \in CameraEntries(2) }

\* parseCameras(): throws unless CAMERAS is a non-empty array
parseCameras(camerasJson) ==
    IF Len(camerasJson) = 0
    THEN [ threw |-> TRUE, cameras |-> << >> ]
    ELSE [ threw |-> FALSE, cameras |-> camerasJson ]

\* constructor(): the keys of this.streams, one session per camera.id
constructorKeys(cams) == { cams[i].id : i \in 1..Len(cams) }

\* this.streams.get(key).camera: the last camera set under the key
sessionCamera(cams, key) ==
    cams[CHOOSE i \in 1..Len(cams) :
           cams[i].id = key /\ \A j \in (i + 1)..Len(cams) : cams[j].id # key]

RECURSIVE startAllFrom(_, _, _)
\* startAllStreams() on the configuration, from the i-th camera on: the keys
\* launched so far and whether an exception left the loop
startAllFrom(cams, i, launched) ==
    IF i > Len(cams) THEN [ launched |-> launched, threw |-> FALSE ]
    ELSE LET targetCameraId == IF cams[i].id = Undefined THEN cams[1].id ELSE cams[i].id
         IN  IF targetCameraId \notin constructorKeys(cams)
             THEN startAllFrom(cams, i + 1, launched)
             ELSE IF targetCameraId = Undefined
             THEN [ launched |-> launched, threw |-> TRUE ]
             ELSE IF sessionCamera(cams, targetCameraId).rtspUrl = Undefined
             THEN [ launched |-> launched, threw |-> TRUE ]
             ELSE startAllFrom(cams, i + 1, Append(launched, targetCameraId))

\* the server module from require("./config") to the end of the listen callback
startup(camerasJson) ==
    LET parsed == parseCameras(camerasJson) IN
    IF parsed.threw
    THEN [ op |-> "startup", configRejected |-> TRUE, sessions |-> {}, listening |-> FALSE,
           launched |-> << >>, crashed |-> TRUE ]
    ELSE IF parsed.cameras[1].rtspUrl = Undefined
    THEN [ op |-> "startup", configRejected |-> FALSE,
           sessions |-> constructorKeys(parsed.cameras), listening |-> TRUE,
           launched |-> << >>, crashed |-> TRUE ]
    ELSE LET all == startAllFrom(parsed.cameras, 1, << >>)
         IN  [ op |-> "startup", configRejected |-> FALSE,
               sessions |-> constructorKeys(parsed.cameras), listening |-> TRUE,
               launched |-> all.launched, crashed |-> all.threw ]

\* getCameras() copying the whole camera entry
getCameras_withUrl(cams) ==
    [ i \in 1..Len(cams) |->
        [ id |-> cams[i].id, name |-> cams[i].name, rtspUrl |-> cams[i].rtspUrl ] ]

\* getCameras(): config.cameras.map(camera => ({id: camera.id, name: camera.name}))
getCameras(cams) ==
    [ i \in 1..Len(cams) |-> [ id |-> cams[i].id, name |-> cams[i].name ] ]

InitConfig ==
    /\ Built
    /\ arg \in Configs
    /\ ret = NotCalled

\* node server/server.js
Startup ==
    /\ ret = NotCalled
    /\ ret' = startup(arg)
    /\ UNCHANGED <<page, streams, onStatusChange, procs, signals, timers, hls, serverUp, arg,
                   stopRequested, staleTimers, pub, last>>

\* GET /api/cameras on a server that started and did not crash in the listen callback
GetCameras ==
    /\ ret = NotCalled
    /\ startup(arg).listening /\ ~startup(arg).crashed
    /\ ret' = [ op |-> "getCameras", list |-> getCameras(arg) ]
    /\ UNCHANGED <<page, streams, onStatusChange, procs, signals, timers, hls, serverUp, arg,
                   stopRequested, staleTimers, pub, last>>

NextConfig == Startup \/ GetCameras

SpecConfig == InitConfig /\ [][NextConfig]_vars

-----------------------------------------------------------------------------
(* Vocabulary of the properties *)

\* the processes of the camera whose terminal event this step delivers
DiedIn(id) ==
    { p \in 1..Len(procs[id]) : procs[id][p] \in Alive /\ procs'[id][p] \notin Alive }

\* Starting: the held process has been launched, its start is not yet confirmed
Starting(id) ==
    /\ streams[id].ffmpegProcess # NULL
    /\ procs[id][streams[id].ffmpegProcess] = "launched"

\* a reconnect of the camera is scheduled: the session holds a pending timer
ReconnectPending(S, id) ==
    /\ S.streams[id].reconnectTimer # NULL
    /\ S.timers[id][S.streams[id].reconnectTimer].st = "pending"

\* the statuses published by the last handler, in order
Published == [ i \in 1..Len(pub) |-> pub[i].status ]

-----------------------------------------------------------------------------
(* C1: after stop(cameraId), with no explicit start since, a terminal event  *)
(* (exit or failure) delivered by the process that stop signalled changes no *)
(* session state, publishes no status other than stopped and arms no timer.  *)
(* The handlers do not tell a superseded process from the current one, so    *)
(* this statement is violated.                                               *)
C1_StaleExitAfterStopIgnored ==
    [][ \A id \in CameraIds : \A p \in DiedIn(id) :
          (stopRequested[id] /\ <<id, p>> \in signals)
          => /\ streams'[id] = streams[id]
             /\ timers'[id] = timers[id]
             /\ \A i \in 1..Len(pub') : pub'[i].status = "stopped" ]_vars

(* C2: startStream(cameraId) launches no process and changes no session      *)
(* state when the session is Streaming or Starting.  The guard reads only    *)
(* isStreaming, which the start handler sets, so a Starting session is       *)
(* launched again: this statement is violated.                               *)
C2_StartIsNoOpWhenStartingOrStreaming ==
    [][ \A id \in CameraIds :
          (last'.op = "start" /\ last'.id = id
             /\ (streams[id].isStreaming \/ Starting(id)))
          => (procs' = procs /\ streams' = streams) ]_vars

(* C5 (its safety half): whenever a process of a camera delivers its         *)
(* terminal event, the process was not signalled by stop and no stop is in   *)
(* force for the camera, a reconnect is scheduled afterwards.  A failure     *)
(* whose message is classified as a decoding error while the session is      *)
(* streaming returns early, so this statement is violated.                   *)
C5_TerminationSchedulesReconnect ==
    [][ \A id \in CameraIds : \A p \in DiedIn(id) :
          (~stopRequested[id] /\ <<id, p>> \notin signals)
          => ReconnectPending([streams |-> streams', timers |-> timers'], id) ]_vars

-----------------------------------------------------------------------------
(* C3: for every camera, in every reachable state, at most one reconnect     *)
(* timer is pending; a step taken while a timer of the camera is pending     *)
(* (in particular one whose handler requests a reconnect) arms no timer for  *)
(* that camera.                                                              *)
C3_SinglePendingTimer ==
    /\ [](\A id \in CameraIds : Cardinality(PendingTimersOf(id)) <= 1)
    /\ [][ \A id \in CameraIds :
             PendingTimersOf(id) # {} => Len(timers'[id]) = Len(timers[id]) ]_vars

\* a terminal handler ran its teardown (it published ended or error), requested
\* a reconnect while the camera's timer was pending, and armed nothing
C3_ScheduleIgnoredWitness ==
    /\ last.op \in {"onError", "onEnd"}
    /\ pub # << >>
    /\ ~last.armed
    /\ last.before.reconnectTimer # NULL
    /\ PendingTimersOf(last.id) = { <<last.id, last.before.reconnectTimer>> }

(* C4: after the start handler has run for a camera, its session is          *)
(* streaming and its reconnect-attempt counter is 0, whatever the counter    *)
(* was before.                                                               *)
C4_ConfirmedStartResetsAttempts ==
    last.op = "onStart"
    => /\ streams[last.id].isStreaming
       /\ streams[last.id].reconnectAttempts = 0
       /\ Published = << "streaming" >>
       /\ pub[1].reconnectAttempts = 0

\* a start was confirmed for a session whose counter was not 0
C4_ResetFromNonZeroWitness ==
    /\ last.op = "onStart"
    /\ last.before.reconnectAttempts > 0
    /\ streams[last.id].reconnectAttempts = 0

C7_StateAfterStop ==
    (last.op = "stop" /\ last.id \in CameraIds)
    => /\ PendingTimersOf(last.id) = {}
       /\ streams[last.id] = NoSession
       /\ last.before.ffmpegProcess # NULL => last.before.ffmpegProcess \in last.sent
       /\ Published = << "stopped" >>
       /\ ~pub[1].isStreaming /\ pub[1].reconnectAttempts = 0

\* stopStream ran on a streaming session that held a process and had retried
C7_StopFromStreamingWitness ==
    /\ last.op = "stop"
    /\ last.before.isStreaming
    /\ last.before.ffmpegProcess # NULL
    /\ last.sent = {last.before.ffmpegProcess}
    /\ \E t \in 1..Len(timers[last.id]) : timers[last.id][t].st = "fired"

(* C8: in the state a stopStream(cameraId) leaves, a second stopStream of    *)
(* the same camera sends no signal, and leaves sessions, processes, pending  *)
(* signals, timers and directories as they are, publishing stopped again.    *)
C8_StopIdempotent ==
    (last.op = "stop" /\ last.id \in CameraIds)
    => LET S == stopStream(Cur, last.id)
       IN  /\ S.sent = {}
           /\ S.streams = streams
           /\ S.procs = procs
           /\ S.signals = signals
           /\ S.timers = timers
           /\ S.hls = hls
           /\ S.pub = pub

\* a stopStream that found the session as a stopStream leaves it, while the
\* process an earlier stopStream signalled is still alive
C8_SecondStopWitness ==
    /\ last.op = "stop"
    /\ last.id \in CameraIds
    /\ last.before = NoSession
    /\ last.sent = {}
    /\ stopRequested[last.id]
    /\ \E p \in 1..Len(procs[last.id]) : <<last.id, p>> \in signals

\* the terminal event is handled as fatal: not a decoding error on a streaming session
Fatal(op, msg, session) ==
    op = "onEnd" \/ (op = "onError" /\ ~(isDecodingError(msg) /\ session.isStreaming))

\* a handler's result without the status tag and message of what it published
Untagged(S) ==
    [S EXCEPT !.pub = [ i \in 1..Len(S.pub) |->
                          [S.pub[i] EXCEPT !.status = "", !.message = ""] ]]

(* C9: after the end handler, or the error handler on its fatal path, has    *)
(* run for a session that is not stopped, the session is not streaming, its  *)
(* handle is absent and a reconnect is scheduled; and in every state, for    *)
(* every live process of such a session, the end handler and the error       *)
(* handler (fatal path) give the same result up to status tag and message.   *)
C9_TerminalEventTeardown ==
    /\ (/\ last.op \in {"onEnd", "onError"}
        /\ Fatal(last.op, last.msg, last.before)
        /\ ~stopRequested[last.id])
       => /\ ~streams[last.id].isStreaming
          /\ streams[last.id].ffmpegProcess = NULL
          /\ ReconnectPending(Cur, last.id)
          /\ Published = << IF last.op = "onEnd" THEN "ended" ELSE "error" >>
    /\ \A id \in CameraIds : \A p \in 1..Len(procs[id]) : \A msg \in ErrMessages :
         (/\ procs[id][p] \in Alive
          /\ ~stopRequested[id]
          /\ Fatal("onError", msg, streams[id]))
         => Untagged(onError(exited(Cur, id, p), id, msg))
              = Untagged(onEnd(exited(Cur, id, p), id))

\* the process of a streaming, non-stopped session exited cleanly and the
\* handler armed the reconnect timer
C9_EndedWitness ==
    /\ last.op = "onEnd"
    /\ ~stopRequested[last.id]
    /\ last.before.isStreaming
    /\ last.armed
    /\ Published = << "ended" >>

(* C10: after the error handler has run with a message classified as a       *)
(* decoding error on a session that was streaming, the session is as it was  *)
(* (streaming, handle kept, counter unchanged), nothing was published and no *)
(* timer was armed.                                                          *)
C10_DecodingErrorIgnored ==
    (last.op = "onError" /\ isDecodingError(last.msg) /\ last.before.isStreaming)
    => /\ streams[last.id] = last.before
       /\ streams[last.id].isStreaming
       /\ pub = << >>
       /\ ~last.armed

\* a decoding-classified failure arrived for a streaming session holding a process
C10_DecodingErrorWitness ==
    /\ last.op = "onError"
    /\ isDecodingError(last.msg)
    /\ last.before.isStreaming
    /\ last.before.ffmpegProcess # NULL
    /\ streams[last.id].isStreaming

-----------------------------------------------------------------------------
\* the session and the status record the timer callback must produce, whatever
\* the start at its end does: handle cleared, counter one higher, one
\* reconnecting record carrying the new count
FiredAsSpecified(S, id) ==
    LET n == streams[id].reconnectAttempts + 1 IN
    /\ S.streams[id].reconnectTimer = NULL
    /\ S.streams[id].reconnectAttempts = n
    /\ S.streams[id].isStreaming = streams[id].isStreaming
    /\ Len(S.pub) = 1
    /\ S.pub[1].status = "reconnecting"
    /\ S.pub[1].reconnectAttempts = n
    /\ S.pub[1].message = "Attempt " \o ToString(n)

\* the part of C11 that does not depend on the start at the end of the callback
C11_FiredAsSpecified ==
    \A id \in CameraIds : \A tid \in PendingTimersOf(id) :
      FiredAsSpecified(reconnectCallback([Cur EXCEPT !.timers[id][tid[2]].st = "fired"], id), id)

(* C11: when the pending reconnect timer of a camera fires, the callback     *)
(* clears the timer handle, adds exactly one to the attempt counter,         *)
(* publishes one reconnecting status carrying the new count and then starts  *)
(* the camera through the guarded start operation: for a session that is     *)
(* Streaming or Starting it launches nothing and keeps the handle, otherwise *)
(* it launches one process.  The callback calls _startFFmpeg, which has no   *)
(* guard, so this statement is violated.                                     *)
C11_TimerCallbackStartsThroughGuard ==
    /\ C11_FiredAsSpecified
    /\ \A id \in CameraIds : \A tid \in PendingTimersOf(id) :
         LET S == reconnectCallback([Cur EXCEPT !.timers[id][tid[2]].st = "fired"], id)
         IN  IF streams[id].isStreaming \/ Starting(id)
             THEN /\ S.procs = procs
                  /\ S.streams[id].ffmpegProcess = streams[id].ffmpegProcess
             ELSE Len(S.procs[id]) = Len(procs[id]) + 1

-----------------------------------------------------------------------------
\* the delay of the timer a handler armed last for the camera
ArmedDelay(S, id) == S.timers[id][Len(S.timers[id])].delay

\* the states the handlers can leave behind before the next termination of a
\* process of the camera, when no further start is confirmed: nothing runs,
\* or the pending reconnect timer of the camera fires
BeforeNextTermination(id) ==
    {Cur} \cup { reconnectCallback([Cur EXCEPT !.timers[id][tid[2]].st = "fired"], id) :
                   tid \in PendingTimersOf(id) }

\* the first half of C12: a timer is armed with the delay of the counter
C12_ArmedWithDelayOfCounter ==
    last.armed
    => ArmedDelay(Cur, last.id) = _calculateReconnectDelay(last.before.reconnectAttempts)

(* C12: every reconnect timer is armed with delay(a), a being the attempt    *)
(* counter of the session when it is scheduled; and the first reconnect      *)
(* scheduled after a confirmed start waits initialDelay (1000 ms): from the  *)
(* state a start handler leaves, the next termination of a process of the    *)
(* camera arms its timer with 1000.  A reconnect timer left pending by an    *)
(* earlier failure may fire in between and raise the counter of the          *)
(* streaming session, so this statement is violated.                         *)
C12_FirstReconnectAfterStartWaitsInitialDelay ==
    /\ C12_ArmedWithDelayOfCounter
    /\ last.op = "onStart"
       => \A S \in BeforeNextTermination(last.id) :
            \A p \in 1..Len(S.procs[last.id]) :
              S.procs[last.id][p] \in Alive
              => LET T == onEnd(exited(S, last.id, p), last.id)
                 IN  T.armed => ArmedDelay(T, last.id) = initialDelay

-----------------------------------------------------------------------------
\* err.message of a launch that cannot reach its source
UnreachableMessage == "ffmpeg exited with code 1: Conversion failed!"

RECURSIVE UnreachableRounds(_, _, _)
\* the state after k more rounds for a camera whose source stays unreachable:
\* the pending timer fires, the launcher confirms the start of the process the
\* callback launched, and that process fails
UnreachableRounds(S, id, k) ==
    IF k = 0 THEN S
    ELSE LET t  == S.streams[id].reconnectTimer
             S1 == reconnectCallback([S EXCEPT !.timers[id][t].st = "fired"], id)
             p  == S1.streams[id].ffmpegProcess
             S2 == onStart([S1 EXCEPT !.procs[id][p] = "running"], id)
             S3 == onError(exited(S2, id, p), id, UnreachableMessage)
         IN  UnreachableRounds(S3, id, k - 1)

\* the only launch of the camera so far was confirmed started and then failed,
\* and the first reconnect timer is armed
FirstLaunchFailed(id) ==
    /\ last.op \in {"onError", "onEnd"}
    /\ last.id = id
    /\ last.before.isStreaming
    /\ last.armed
    /\ procs[id] = << "dead" >>
    /\ Len(timers[id]) = 1

(* C13: for a camera whose source stays unreachable, so that every launch    *)
(* is confirmed started and then fails, the delay armed for the k-th         *)
(* successive reconnect is delay(k): 1000, 1500, 2250, ... up to the cap.    *)
(* The start handler resets the counter on every confirmation, so every      *)
(* reconnect is armed with 1000 and this statement is violated.              *)
C13_DelaysGrowWhileSourceUnreachable ==
    \A id \in CameraIds :
      FirstLaunchFailed(id)
      => \A k \in 0..MaxRounds :
           ArmedDelay(UnreachableRounds(Cur, id, k), id) = _calculateReconnectDelay(k)

-----------------------------------------------------------------------------
(* C14: for every attempt count n >= 0 the computed delay d is               *)
(* floor(min(1000 * 1.5^n, 30000)): d is the integer with                    *)
(* d <= min(1000 * (3/2)^n, 30000) < d + 1, stated with both sides scaled by *)
(* 2^n; in particular delay(0) = 1000, delay(1) = 1500, delay(2) = 2250 and  *)
(* delay(8) = 25628.                                                         *)
C14_DelayIsFlooredCappedPower ==
    ret # NotCalled
    => \A i \in 1..2 :
         LET n == arg[i]
             d == ret[i]
             scaled == IF 1000 * Pow(3, n) <= 30000 * Pow(2, n)
                       THEN 1000 * Pow(3, n) ELSE 30000 * Pow(2, n)
         IN  /\ d * Pow(2, n) <= scaled
             /\ scaled < (d + 1) * Pow(2, n)
             /\ n = 0 => d = 1000
             /\ n = 1 => d = 1500
             /\ n = 2 => d = 2250
             /\ n = 8 => d = 25628

\* the delay was computed for attempt counts 4 and 8, where flooring matters
C14_FlooredWitness ==
    /\ arg = << 4, 8 >>
    /\ ret = << 5062, 25628 >>

(* C15: the delay is monotonically non-decreasing in the attempt count,      *)
(* never exceeds 30000 ms, equals 30000 ms for every attempt count n >= 9    *)
(* and is below 30000 ms for every n < 9 (9 is the crossover point).         *)
C15_DelayMonotoneAndCapped ==
    ret # NotCalled
    => /\ arg[1] <= arg[2] => ret[1] <= ret[2]
       /\ \A i \in 1..2 :
            /\ ret[i] <= 30000
            /\ arg[i] >= 9 => ret[i] = 30000
            /\ arg[i] < 9 => ret[i] < 30000

\* the delay was computed on both sides of the crossover point
C15_CrossoverWitness ==
    /\ arg = << 8, 9 >>
    /\ ret = << 25628, 30000 >>

-----------------------------------------------------------------------------
\* after startAllStreams every camera is Streaming or Starting
AllLaunched == \A id \in CameraIds : streams[id].isStreaming \/ Starting(id)

\* what holds of startAllStreams when nothing is thrown while it runs
C16_StartAllWithoutFailure == (last.op = "startAll" /\ ~last.thrown) => AllLaunched

(* C16: startAllStreams starts every configured camera: after it has run,    *)
(* every camera is Streaming or has a freshly launched process, also when    *)
(* the launch of one camera fails synchronously while its directory is       *)
(* prepared (the cameras whose directory exists are those whose preparation *)
(* did not fail).  fs.mkdirSync is called outside any try and                *)
(* startAllStreams catches nothing, so the cameras after the failing one are *)
(* never started: this statement is violated.                                *)
C16_StartAllLaunchesEveryOtherCamera ==
    /\ C16_StartAllWithoutFailure
    /\ last.op = "startAll"
       => \A id \in CameraIds :
            hls[id].exists => (streams[id].isStreaming \/ Starting(id))

-----------------------------------------------------------------------------
\* the step runs an operation or event of one camera and leaves the session,
\* processes and timers of every other camera as they were
OtherCamerasUntouched ==
    \A A \in CameraIds :
      (last'.id = A /\ last'.op \in {"start", "stop", "timer", "onStart", "onStderr",
                                     "write", "onError", "onEnd"})
      => \A B \in CameraIds \ {A} :
           /\ streams'[B] = streams[B]
           /\ procs'[B] = procs[B]
           /\ timers'[B] = timers[B]
           /\ hls'[B] = hls[B]

\* the frame half of C17 alone
C17_OtherCamerasUntouched == [][OtherCamerasUntouched]_vars

(* C17: for distinct cameras A and B, a start, stop, timer firing or process *)
(* event of A leaves the session of B (handle, streaming flag, counter,      *)
(* pending timer) unchanged, and no step, whatever fails in it for a camera, *)
(* ends the server process.  An exception thrown while the directory of a    *)
(* camera is prepared inside the listen callback is caught by nobody, so     *)
(* this statement is violated.                                               *)
C17_CamerasIndependentServerSurvives ==
    [][OtherCamerasUntouched /\ serverUp']_vars

-----------------------------------------------------------------------------
(* C18: a diagnostic (stderr) line of a process, whatever its text           *)
(* (connection, timeout and decoder error messages included), changes no     *)
(* session, process, timer or directory, publishes no status and arms no     *)
(* timer.                                                                    *)
C18_StderrChangesNothing ==
    [][ last'.op = "onStderr"
        => /\ UNCHANGED <<streams, procs, signals, timers, hls, serverUp>>
           /\ pub' = << >>
           /\ ~last'.armed
           /\ last'.sent = {} ]_vars

\* a streaming session received a decoder error line from its running process
\* and is as it was
C18_ErrorTextWitness ==
    /\ last.op = "onStderr"
    /\ last.msg = "Error while decoding stream #0:0"
    /\ last.before.isStreaming
    /\ last.before.ffmpegProcess # NULL
    /\ streams[last.id] = last.before
    /\ procs[last.id][last.before.ffmpegProcess] = "running"

-----------------------------------------------------------------------------
RECURSIVE linesOf(_, _)
\* the lines of a text, from position i on
linesOf(s, i) ==
    IF i > Len(s) THEN << >>
    ELSE LET e == lineEnd(s, i)
         IN  << SubSeq(s, i, e - 1) >> \o linesOf(s, e + 1)

\* a manifest line that refers to a segment: not empty, not a directive or comment
isSegmentReference(line) == Len(line) > 0 /\ SubSeq(line, 1, 1) # "#"

\* the response is a manifest: success status, manifest content type, header first
IsManifestResponse(r) ==
    /\ r.status = 200
    /\ r.contentType = MpegUrl
    /\ linesOf(r.body, 1) # << >>
    /\ linesOf(r.body, 1)[1] = "#EXTM3U"

(* C19: every manifest route, the per-camera one and the legacy one of the   *)
(* first camera, answers with status 200, the manifest content type and a    *)
(* body that starts with the manifest header, whether the manifest file      *)
(* exists, is missing or cannot be read.  The legacy route answers 404 and   *)
(* 500 with a JSON body for a missing or unreadable file, so this statement  *)
(* is violated.                                                              *)
C19_EveryManifestRouteAnswersManifest ==
    ret # NotCalled => IsManifestResponse(ret)

\* the half of C19 that concerns the per-camera route
C19_CameraRouteAnswersManifest ==
    (ret # NotCalled /\ ret.route = "camera") => IsManifestResponse(ret)

(* C20: the per-camera route, asked for a camera whose directory or manifest *)
(* file does not exist (the camera may not even be configured), returns a    *)
(* manifest whose first line is the header directive, which has a            *)
(* target-duration directive and which refers to no segment.                 *)
C20_MissingManifestRendersEmpty ==
    (ret # NotCalled /\ ret.route = "camera" /\ ~arg.file.exists)
    => LET lines == linesOf(ret.body, 1)
       IN  /\ IsManifestResponse(ret)
           /\ \E i \in 1..Len(lines) : startsWithAt(lines[i], 1, "#EXT-X-TARGETDURATION:")
           /\ \A i \in 1..Len(lines) : ~isSegmentReference(lines[i])

\* the manifest of a camera that is not configured was asked for and rendered
C20_UnconfiguredCameraWitness ==
    /\ ret # NotCalled
    /\ ret.route = "camera"
    /\ arg.cameraId = UnknownId
    /\ ~arg.file.exists
    /\ ret.status = 200
    /\ Len(linesOf(ret.body, 1)) = 6

-----------------------------------------------------------------------------
\* a directive or comment line of a manifest
isDirective(line) == Len(line) > 0 /\ SubSeq(line, 1, 1) = "#"

\* the end-of-stream terminator marker
EndList == "#EXT-X-ENDLIST"

RECURSIVE withoutEndList(_)
\* the lines of a manifest without its terminator lines, in order
withoutEndList(lines) ==
    IF lines = << >> THEN << >>
    ELSE IF Head(lines) = EndList THEN withoutEndList(Tail(lines))
    ELSE << Head(lines) >> \o withoutEndList(Tail(lines))

(* C21: the per-camera route, rendering a manifest file that exists and can  *)
(* be read, returns the lines of the file without any terminator marker,     *)
(* in order: every directive line (starting with #) byte-identical, every    *)
(* bare segment-filename line as a path that contains the camera id and ends *)
(* with the original filename.                                               *)
C21_RenderRewritesSegmentsKeepsDirectives ==
    (ret # NotCalled /\ ret.route = "camera" /\ arg.file.exists /\ arg.file.readable)
    => LET kept == withoutEndList(linesOf(arg.file.content, 1))
           out  == linesOf(ret.body, 1)
       IN  /\ Len(out) = Len(kept)
           /\ ~includes(ret.body, EndList)
           /\ \A i \in 1..Len(kept) :
                IF isDirective(kept[i]) THEN out[i] = kept[i]
                ELSE /\ isSegmentReference(out[i])
                     /\ includes(out[i], arg.cameraId)
                     /\ endsWith(out[i], "/" \o kept[i])

\* a manifest holding a segment line and then the terminator was rendered for cam1
C21_SegmentAndEndListWitness ==
    /\ ret # NotCalled
    /\ ret.route = "camera"
    /\ arg.cameraId = "cam1"
    /\ arg.file.readable
    /\ endsWith(arg.file.content, "segment_1.ts\n#EXT-X-ENDLIST\n")
    /\ endsWith(ret.body, "#EXT-X-TARGETDURATION:2\n/hls/cam1/segment_1.ts\n")

-----------------------------------------------------------------------------
\* a segment or manifest artifact, by the naming of the transcoder's output
isArtifact(f) == f \in {SegmentFile, PlaylistFile}

(* C22: _ensureHlsDirectory(cameraId), when no file operation fails, creates *)
(* the output directory when it is missing; when it exists, afterwards the   *)
(* directory holds no segment and no manifest entry and exactly the other    *)
(* entries it held before.                                                   *)
C22_EnsureCreatesOrCleans ==
    \A id \in CameraIds :
      LET S == _ensureHlsDirectory(Cur, id)
      IN  /\ ~S.thrown
          /\ S.hls[id].exists
          /\ \A f \in S.hls[id].files : ~isArtifact(f)
          /\ IF hls[id].exists
             THEN \A f \in hls[id].files : ~isArtifact(f) => f \in S.hls[id].files
             ELSE S.hls[id].files = {}
          /\ S.hls[id].files \subseteq hls[id].files
          /\ \A other \in CameraIds \ {id} : S.hls[other] = hls[other]

\* the first start of the camera whose directory held a segment and another
\* file has cleaned it: the other file alone is left
C22_CleanedWitness ==
    /\ last.op = "start"
    /\ last.id = cameras[2].id
    /\ procs[last.id] = << "launched" >>
    /\ hls[last.id] = [exists |-> TRUE, files |-> {OtherFile}]

(* C23: _ensureHlsDirectory is idempotent: from any directory content, two   *)
(* calls in a row leave the directories as one call does, the camera's       *)
(* existing and without segment or manifest entries.                         *)
C23_EnsureIdempotent ==
    \A id \in CameraIds :
      LET once  == _ensureHlsDirectory(Cur, id)
          twice == _ensureHlsDirectory(once, id)
      IN  /\ twice.hls = once.hls
          /\ twice.hls[id].exists
          /\ \A f \in twice.hls[id].files : ~isArtifact(f)

\* a directory holding a segment, a manifest and another file, which the two
\* calls made by a start are about to clean
C23_DirtyDirectoryWitness ==
    \E id \in CameraIds :
      /\ hls[id].files = {SegmentFile, PlaylistFile, OtherFile}
      /\ ~streams[id].isStreaming
      /\ _ensureHlsDirectory(_ensureHlsDirectory(Cur, id), id).hls[id].files = {OtherFile}

-----------------------------------------------------------------------------
\* the file operations that may fail while one handler runs
IoFailures ==
    [ mkdirFails : SUBSET CameraIds, readdirFails : SUBSET CameraIds,
      unlinkFails : SUBSET {SegmentFile, PlaylistFile} ]

\* the state a handler starts from when the given file operations fail
CurFailing(io) ==
    [Cur EXCEPT !.mkdirFails = io.mkdirFails, !.readdirFails = io.readdirFails,
                !.unlinkFails = io.unlinkFails]

\* startStream(id) returns normally and has launched a process
StartProceeds(S, id) ==
    /\ ~S.thrown
    /\ Len(S.procs[id]) = Len(procs[id]) + 1
    /\ S.streams[id].ffmpegProcess = Len(S.procs[id])

\* the part of C24 about enumerating the directory and deleting entries
C24_CleanupFailuresSkipped ==
    \A id \in CameraIds : \A io \in IoFailures :
      (~streams[id].isStreaming /\ io.mkdirFails = {})
      => StartProceeds(startStream(CurFailing(io), id), id)

(* C24: whatever file operation fails inside _ensureHlsDirectory (creating   *)
(* the directory, listing it, deleting an entry), startStream of a camera    *)
(* that is not streaming returns normally and launches the process.  A       *)
(* failing mkdirSync is outside any try, so this statement is violated.      *)
C24_NoEnsureFailureReachesCaller ==
    /\ C24_CleanupFailuresSkipped
    /\ (last.op = "start" /\ last.id \in CameraIds /\ ~last.before.isStreaming)
       => (~last.thrown /\ Starting(last.id))

-----------------------------------------------------------------------------
\* some camera entry of the configuration lacks its id, name or source URL
LacksRequiredField(cams) ==
    \E i \in 1..Len(cams) :
      cams[i].id = Undefined \/ cams[i].name = Undefined \/ cams[i].rtspUrl = Undefined

(* C25: on a configuration in which some camera entry lacks its identifier,  *)
(* display name or source URL, start-up fails while the configuration is     *)
(* read: no session is created, no process is launched and the server never  *)
(* listens.  parseCameras checks only that CAMERAS is a non-empty array, so  *)
(* this statement is violated.                                               *)
C25_IncompleteCameraRejectedAtStartup ==
    (ret # NotCalled /\ ret.op = "startup" /\ LacksRequiredField(arg))
    => /\ ret.configRejected
       /\ ret.sessions = {}
       /\ ret.launched = << >>
       /\ ~ret.listening

-----------------------------------------------------------------------------
(* Specification SpecObservers: callers register status callbacks on the
   built supervisor and handlers publish status records.  arg is the
   sequence of callbacks handed to setStatusCallback so far, the server's
   own logger first; ret describes the last publication. *)

MaxRegistrations == 3

Statuses == { "streaming", "stopped", "error" }

InitObservers ==
    /\ Built
    /\ arg = << ServerLogger >>
    /\ ret = NotCalled

\* streamManager.setStatusCallback(callback)
SetStatusCallback(callback) ==
    /\ serverUp
    /\ Len(arg) <= MaxRegistrations
    /\ onStatusChange' = setStatusCallback(callback)
    /\ arg' = Append(arg, callback)
    /\ ret' = NotCalled
    /\ UNCHANGED <<page, streams, procs, signals, timers, hls, serverUp,
                   stopRequested, staleTimers, pub, last>>

\* a handler reaches this._updateStatus(cameraId, status)
UpdateStatus(cameraId, status) ==
    LET S == _updateStatus(Cur, cameraId, status, "")
    IN  /\ pub' = S.pub
        /\ ret' = [ op |-> "updateStatus", cameraId |-> cameraId,
                    notified |-> S.notified, thrown |-> S.thrown ]
        /\ UNCHANGED <<page, streams, onStatusChange, procs, signals, timers, hls,
                       serverUp, arg, stopRequested, staleTimers, last>>

NextObservers ==
    \/ \E callback \in Observers : SetStatusCallback(callback)
    \/ \E cameraId \in IdInputs \ {NoId}, status \in Statuses :
           UpdateStatus(cameraId, status)
    \/ StartStream(cameras[1].id, {})
    \/ \E p \in 1..MaxProcs : ProcStart(cameras[1].id, p)
    \/ \E p \in 1..MaxProcs, message \in ErrMessages :
           ProcError(cameras[1].id, p, message)
    \/ \E p \in 1..MaxProcs : ProcEnd(cameras[1].id, p)

SpecObservers == InitObservers /\ [][NextObservers]_vars

\* the callbacks registered so far, each once, in order of first registration
RECURSIVE registered(_)
registered(calls) ==
    IF calls = << >> THEN << >>
    ELSE LET rest == registered(SubSeq(calls, 1, Len(calls) - 1))
             c == calls[Len(calls)]
         IN  IF \E i \in 1..Len(rest) : rest[i] = c THEN rest ELSE Append(rest, c)

PublishedFor(id) == ret # NotCalled /\ ret.op = "updateStatus" /\ ret.cameraId = id

\* C26: a publication for a camera with a session invokes every registered
\* observer, in registration order, a throwing observer not stopping the
\* ones after it.
C26_EveryObserverNotifiedInOrder ==
    \A id \in CameraIds :
        PublishedFor(id) => ret.notified = registered(arg)

\* the code invokes only the callback registered last
C26_OnlyLastRegisteredNotified ==
    \A id \in CameraIds :
        PublishedFor(id) =>
            /\ ret.notified = << arg[Len(arg)] >>
            /\ ret.thrown = (arg[Len(arg)] \in ThrowingObservers)

\* the configurations that differ from the given one at most in the cameras'
\* source URLs
SameButUrls(cams) ==
    { other \in Configs :
        /\ Len(other) = Len(cams)
        /\ \A i \in 1..Len(cams) :
              other[i].id = cams[i].id /\ other[i].name = cams[i].name }

-----------------------------------------------------------------------------
(* Specification SpecOptions: the resolution of one optional camera field
   when a process is launched.  JavaScript values are written as their
   literals: undefined, 0, '' and quoted strings.  arg holds the field, the
   value the camera entry carries and the value of the environment variable
   behind the global default; ret holds the value the launch uses. *)

JsZero == "0"
JsEmpty == "''"

\* the values JavaScript's || skips
falsy(v) == v \in { Undefined, "null", "false", "NaN", JsZero, JsEmpty }

\* a || b
orElse(a, b) == IF falsy(a) THEN b ELSE a

\* parseInt(s, 10) of a string literal
parseInt(s) ==
    LET inner == SubSeq(s, 2, Len(s) - 1)
    IN  IF Len(s) >= 3 /\ isDigits(inner) THEN inner ELSE "NaN"

OptionFields == { "rtspTransport", "videoMode", "audioMode", "audioStreamIndex",
                  "audioEncodingMode", "errorDetection", "hlsListSize" }

\* values a camera entry may carry in the field
CameraValues(field) ==
    { Undefined, JsZero, JsEmpty } \cup
    CASE field = "rtspTransport"     -> { "'udp'", "'tcp'" }
      [] field = "videoMode"         -> { "'passthrough'", "'reencode'" }
      [] field = "audioMode"         -> { "'disabled'", "'manual'" }
      [] field = "audioStreamIndex"  -> { "1", "2" }
      [] field = "audioEncodingMode" -> { "'force'", "'auto'" }
      [] field = "errorDetection"    -> { "'ignore_err'", "'careful'" }
      [] field = "hlsListSize"       -> { "6", "20" }

\* values of the environment variable the global default is read from; the
\* transport and the list size have none
EnvValues(field) ==
    { Undefined } \cup
    CASE field = "rtspTransport"     -> { }
      [] field = "videoMode"         -> { JsEmpty, "'passthrough'" }
      [] field = "audioMode"         -> { JsEmpty, "'disabled'" }
      [] field = "audioStreamIndex"  -> { JsEmpty, "'3'" }
      [] field = "audioEncodingMode" -> { JsEmpty, "'force'" }
      [] field = "errorDetection"    -> { JsEmpty, "'compliant'" }
      [] field = "hlsListSize"       -> { }

\* config.ffmpeg: the global default of the field
globalDefault(field, env) ==
    CASE field = "rtspTransport"     -> "'tcp'"
      [] field = "videoMode"         -> orElse(env, "'reencode'")
      [] field = "audioMode"         -> orElse(env, "'auto'")
      [] field = "audioStreamIndex"  -> parseInt(orElse(env, "'0'"))
      [] field = "audioEncodingMode" -> orElse(env, "'auto'")
      [] field = "errorDetection"    -> orElse(env, "'aggressive'")
      [] field = "hlsListSize"       -> "10"

\* _configureAudio: audioMode, audioStreamIndex, audioEncodingMode
configureAudioOption(field, value, env) ==
    IF field = "audioStreamIndex"
    THEN IF value # Undefined THEN value ELSE globalDefault(field, env)
    ELSE orElse(value, globalDefault(field, env))

\* _configureVideo: videoMode
configureVideoOption(field, value, env) == orElse(value, globalDefault(field, env))

\* _startFFmpeg: transport, errorDetection, hlsListSize
startFFmpegOption(field, value, env) ==
    IF field = "rtspTransport"
    THEN orElse(orElse(value, globalDefault(field, env)), "'tcp'")
    ELSE orElse(value, globalDefault(field, env))

AudioFields == { "audioMode", "audioStreamIndex", "audioEncodingMode" }
VideoFields == { "videoMode" }

InitOptions ==
    /\ Built
    /\ arg \in UNION { [ field : {f}, value : CameraValues(f), env : EnvValues(f) ] :
                       f \in OptionFields }
    /\ ret = NotCalled

Resolved(value) ==
    /\ ret = NotCalled
    /\ ret' = [ op |-> "option", value |-> value ]
    /\ UNCHANGED <<page, streams, onStatusChange, procs, signals, timers, hls, serverUp, arg,
                   stopRequested, staleTimers, pub, last>>

ConfigureAudio ==
    /\ arg.field \in AudioFields
    /\ Resolved(configureAudioOption(arg.field, arg.value, arg.env))

ConfigureVideo ==
    /\ arg.field \in VideoFields
    /\ Resolved(configureVideoOption(arg.field, arg.value, arg.env))

StartFFmpegOptions ==
    /\ arg.field \in OptionFields \ (AudioFields \cup VideoFields)
    /\ Resolved(startFFmpegOption(arg.field, arg.value, arg.env))

NextOptions == ConfigureAudio \/ ConfigureVideo \/ StartFFmpegOptions

SpecOptions == InitOptions /\ [][NextOptions]_vars

\* C28: the value a launch uses for an optional field is the camera's own
\* value whenever the camera carries one, 0 and the empty string included,
\* and the global default (itself falling back to the built-in value)
\* otherwise.
C28_ExplicitValueWins ==
    (ret # NotCalled /\ ret.op = "option") =>
        ret.value = IF arg.value # Undefined THEN arg.value
                    ELSE globalDefault(arg.field, arg.env)

\* what the code does: only the audio stream index keeps 0 and the empty
\* string; every other field treats them as absent
C28_FalsyValuesFallThrough ==
    (ret # NotCalled /\ ret.op = "option") =>
        ret.value = IF arg.field = "audioStreamIndex"
                    THEN (IF arg.value # Undefined THEN arg.value
                          ELSE globalDefault(arg.field, arg.env))
                    ELSE (IF arg.value \in {Undefined, JsZero, JsEmpty}
                          THEN globalDefault(arg.field, arg.env) ELSE arg.value)

-----------------------------------------------------------------------------
\* the manifest a running process writes next to its first segment
WrittenManifest ==
    "#EXTM3U\n#EXT-X-VERSION:6\n#EXT-X-TARGETDURATION:2\n#EXTINF:2.000000,\n"
    \o SegmentFile \o "\n"

\* what the per-camera route finds at the camera's playlist path
playlistFileOf(id) ==
    IF hls[id].exists /\ PlaylistFile \in hls[id].files
    THEN [exists |-> TRUE, readable |-> TRUE, content |-> WrittenManifest]
    ELSE [exists |-> FALSE, readable |-> FALSE, content |-> ""]

\* the answer to GET /api/stream/<id>/playlist.m3u8 in the current state
servedManifest(id) == getCameraPlaylist(id, playlistFileOf(id))

\* every process launched for the camera has terminated, none is launched yet
BetweenLaunches(id) ==
    /\ Len(procs[id]) >= 1
    /\ \A p \in 1..Len(procs[id]) : procs[id][p] \notin Alive

\* C29: between the termination of a camera's process and the camera's next
\* launch the per-camera route answers with a manifest that refers to no
\* segment.
C29_NoStaleManifestBetweenLaunches ==
    \A id \in CameraIds :
        BetweenLaunches(id) =>
            \A i \in 1..Len(linesOf(servedManifest(id).body, 1)) :
                ~isSegmentReference(linesOf(servedManifest(id).body, 1)[i])

-----------------------------------------------------------------------------
(* Specification SpecRoutes: the dispatch of one HTTP request by the routes
   the server module registers for streams.  arg is the request (method,
   path segments, cameraId of the query string and of the JSON body); ret
   names the route that handled it, the supervisor operation it called and
   the camera the operation acted on. *)

ApiStream == << "api", "stream" >>

\* request paths: the registered stream routes and the per-camera forms
RoutePaths ==
    { ApiStream \o << leaf >> : leaf \in {"status", "start", "stop", "playlist.m3u8"} }
    \cup { ApiStream \o << id, leaf >> :
             id \in RouteIds, leaf \in {"status", "start", "stop", "playlist.m3u8"} }

Requests ==
    [ method : {"GET", "POST"}, path : RoutePaths, query : IdInputs, body : IdInputs ]

\* the first registered route whose method and pattern match the request
matchRoute(req) ==
    CASE req.method = "GET"  /\ req.path = ApiStream \o << "status" >> -> "status"
      [] req.method = "POST" /\ req.path = ApiStream \o << "start" >>  -> "start"
      [] req.method = "POST" /\ req.path = ApiStream \o << "stop" >>   -> "stop"
      [] req.method = "GET"  /\ Len(req.path) = 4
                             /\ req.path[4] = "playlist.m3u8"          -> "cameraPlaylist"
      [] req.method = "GET"  /\ req.path = ApiStream \o << "playlist.m3u8" >>
                                                                       -> "legacyPlaylist"
      [] OTHER -> "none"

AllCameras == "all"
NoCamera == "none"

\* getStatus(cameraId): the camera whose status is returned
statusTarget(cameraId) ==
    IF cameraId = NoId THEN AllCameras
    ELSE IF cameraId \in CameraIds THEN cameraId ELSE NoCamera

\* startStream / stopStream(cameraId): the camera whose session is looked up
lifecycleTarget(cameraId) ==
    IF targetOf(cameraId) \in CameraIds THEN targetOf(cameraId) ELSE NoCamera

InitRoutes ==
    /\ Built
    /\ arg \in Requests
    /\ ret = NotCalled

Handled(route, op, target) ==
    /\ ret = NotCalled
    /\ matchRoute(arg) = route
    /\ ret' = [ route |-> route, op |-> op, target |-> target ]
    /\ UNCHANGED <<page, streams, onStatusChange, procs, signals, timers, hls, serverUp, arg,
                   stopRequested, staleTimers, pub, last>>

\* app.get("/api/stream/status")
GetStreamStatus == Handled("status", "getStatus", statusTarget(arg.query))

\* app.post("/api/stream/start")
PostStreamStart == Handled("start", "startStream", lifecycleTarget(arg.body))

\* app.post("/api/stream/stop")
PostStreamStop == Handled("stop", "stopStream", lifecycleTarget(arg.body))

\* the two playlist routes read a file and call no supervisor operation
GetPlaylistRoute ==
    \/ Handled("cameraPlaylist", "none", arg.path[Len(arg.path) - 1])
    \/ Handled("legacyPlaylist", "none", cameras[1].id)

\* no route matches: Express answers 404
NoRoute == Handled("none", "none", NoCamera)

NextRoutes ==
    GetStreamStatus \/ PostStreamStart \/ PostStreamStop \/ GetPlaylistRoute \/ NoRoute

SpecRoutes == InitRoutes /\ [][NextRoutes]_vars

\* the operation the documentation attaches to a per-camera request
documentedOp(req) ==
    CASE req.method = "GET"  /\ req.path[Len(req.path)] = "status" -> "getStatus"
      [] req.method = "POST" /\ req.path[Len(req.path)] = "start"  -> "startStream"
      [] req.method = "POST" /\ req.path[Len(req.path)] = "stop"   -> "stopStream"
      [] OTHER -> "none"

\* a documented per-camera request for a configured camera
DocumentedPerCamera(req) ==
    /\ Len(req.path) = 4
    /\ req.path[3] \in CameraIds
    /\ documentedOp(req) # "none"

\* C30: a request to a documented per-camera endpoint calls the documented
\* supervisor operation on the camera named in the path.
C30_PerCameraEndpointsRouted ==
    (ret # NotCalled /\ DocumentedPerCamera(arg)) =>
        /\ ret.op = documentedOp(arg)
        /\ ret.target = arg.path[3]

\* what the code does with them: no route matches
C30_PerCameraEndpointsUnrouted ==
    (ret # NotCalled /\ DocumentedPerCamera(arg)) => ret.route = "none"

-----------------------------------------------------------------------------
\* the processes of the camera that are alive and have not been sent SIGTERM
Unsignalled(id) ==
    { p \in 1..Len(procs[id]) : procs[id][p] \in Alive /\ <<id, p>> \notin signals }

\* C31: whatever the interleaving of start, stop, timer firings and process
\* events, a camera has at most one process that is alive and has not been
\* sent a termination signal.
C31_AtMostOneLiveProcessPerCamera ==
    \A id \in CameraIds : Cardinality(Unsignalled(id)) <= 1

\* C32: after stop and a new start of the camera, the terminal event of the
\* earlier process, the one stop signalled, leaves the handle of the new
\* process in place, does not change isStreaming and arms no timer.
C32_SupersededExitLeavesNewProcess ==
    [][ \A id \in CameraIds : \A p \in DiedIn(id) :
          (/\ <<id, p>> \in signals
           /\ streams[id].ffmpegProcess # NULL
           /\ streams[id].ffmpegProcess # p)
          => /\ streams'[id].ffmpegProcess = streams[id].ffmpegProcess
             /\ streams'[id].isStreaming = streams[id].isStreaming
             /\ timers'[id] = timers[id] ]_vars

\* C33: a session with isStreaming = TRUE holds the handle of a process that
\* has not delivered its terminal event.
C33_StreamingHoldsLiveProcess ==
    \A id \in CameraIds :
        streams[id].isStreaming =>
            /\ streams[id].ffmpegProcess # NULL
            /\ procs[id][streams[id].ffmpegProcess] \in Alive

\* C34: a camera whose session holds a pending reconnect timer has no process
\* handle and is not streaming.
C34_PendingReconnectExcludesProcess ==
    \A id \in CameraIds :
        ReconnectPending(Cur, id) =>
            /\ streams[id].ffmpegProcess = NULL
            /\ ~streams[id].isStreaming

\* the last handler was a terminal-event handler whose status callback threw
TerminalPublishThrew(id) ==
    /\ last.op \in {"onError", "onEnd"}
    /\ last.id = id
    /\ last.thrown

\* C35: when the status callback throws while an error or ended status is
\* published, the session is still marked not streaming without a handle and
\* the reconnect of the camera is still scheduled.
C35_ReconnectSurvivesThrowingObserver ==
    \A id \in CameraIds :
        TerminalPublishThrew(id) =>
            /\ ~streams[id].isStreaming
            /\ streams[id].ffmpegProcess = NULL
            /\ ReconnectPending(Cur, id)

\* the session state is updated before the callback is called
C35_SessionUpdatedBeforePublish ==
    \A id \in CameraIds :
        TerminalPublishThrew(id) =>
            /\ ~streams[id].isStreaming
            /\ streams[id].ffmpegProcess = NULL

\* C36: the session holds a reconnect-timer handle exactly when a timer of
\* the camera is pending, and the handle is that timer; a terminal handler
\* that arms nothing therefore found a timer that is still pending.
C36_HandleIffTimerPending ==
    /\ \A id \in CameraIds :
          /\ (streams[id].reconnectTimer # NULL) = (PendingTimersOf(id) # {})
          /\ streams[id].reconnectTimer # NULL =>
                PendingTimersOf(id) = { <<id, streams[id].reconnectTimer>> }
    /\ (last.op \in {"onError", "onEnd"} /\ pub # << >> /\ ~last.armed) =>
          /\ last.before.reconnectTimer # NULL
          /\ timers[last.id][last.before.reconnectTimer].st = "pending"

\* a timer of the camera has fired and a later terminal handler armed a new
\* one, which the handle names
C36_RearmedAfterFiredWitness ==
    /\ last.op \in {"onError", "onEnd"}
    /\ last.armed
    /\ \E t \in 1..Len(timers[last.id]) : timers[last.id][t].st = "fired"
    /\ streams[last.id].reconnectTimer = Len(timers[last.id])
    /\ timers[last.id][Len(timers[last.id])].st = "pending"

-----------------------------------------------------------------------------
\* getStatus(cameraId) for one camera: null without a session
getStatus(cameraId) ==
    IF cameraId \notin DOMAIN streams THEN NULL
    ELSE [ cameraId          |-> cameraId,
           cameraName        |-> cameraOf(cameraId).name,
           isStreaming       |-> streams[cameraId].isStreaming,
           reconnectAttempts |-> streams[cameraId].reconnectAttempts ]

\* getStatus(): the status of every session
getAllStatus == [ id \in DOMAIN streams |-> getStatus(id) ]

\* the records the last handler published for the camera, in order
recordsOf(records, id) ==
    SelectSeq(records, LAMBDA r : r.cameraId = id)

\* C37: getStatus agrees with the most recently published record of the
\* camera.  Stated per step: a step that publishes for a camera ends with
\* getStatus equal, in isStreaming and reconnectAttempts, to the last record
\* it published for it; a step that publishes nothing for a camera leaves
\* both values of getStatus unchanged.
C37_StatusMatchesLastPublished ==
    [][ \A id \in CameraIds :
          LET recs == recordsOf(pub', id) IN
          IF recs # << >>
          THEN /\ getStatus(id)'.isStreaming = recs[Len(recs)].isStreaming
               /\ getStatus(id)'.reconnectAttempts = recs[Len(recs)].reconnectAttempts
          ELSE /\ getStatus(id)'.isStreaming = getStatus(id).isStreaming
               /\ getStatus(id)'.reconnectAttempts = getStatus(id).reconnectAttempts
      ]_vars

\* a reconnect attempt was published and getStatus shows its counter
C37_ReconnectingPublishedWitness ==
    /\ last.op = "timer"
    /\ pub # << >>
    /\ pub[Len(pub)].status = "reconnecting"
    /\ pub[Len(pub)].reconnectAttempts >= 1
    /\ getStatus(last.id).reconnectAttempts = pub[Len(pub)].reconnectAttempts
    /\ getAllStatus[last.id] = getStatus(last.id)

\* C38: startStream or stopStream with an identifier that is not configured
\* changes no session, process, signal, timer or directory, publishes nothing
\* and throws nothing; getStatus of that identifier is null.
C38_UnknownCameraIsNoOp ==
    [][ (last'.op \in RouteOps /\ last'.id \notin CameraIds) =>
          /\ streams' = streams
          /\ procs' = procs
          /\ signals' = signals
          /\ timers' = timers
          /\ hls' = hls
          /\ pub' = << >>
          /\ last'.sent = {} /\ ~last'.armed /\ ~last'.thrown
          /\ serverUp'
          /\ getStatus(last'.id) = NULL ]_vars

\* startStream of an unknown identifier ran while a camera was streaming
C38_UnknownStartWitness ==
    /\ last.op = "start"
    /\ last.id = UnknownId
    /\ \E id \in CameraIds : streams[id].isStreaming
    /\ getStatus(UnknownId) = NULL

-----------------------------------------------------------------------------
(* Specification SpecPlayer: the retry logic of the player page
   (public/app.js).  page holds isRetrying, the retryTimeout handle, every
   setTimeout the page made with the seconds left before it is due, and
   player.error().  Time advances in seconds; a due timeout runs before time
   advances.  The player reports an error only for a source it has loaded:
   after an error it reports nothing until the source is loaded again. *)

MaxTimeouts == 5

\* seconds of the automatic retry and of the isRetrying window
RetryDelay == 5
RetryingWindow == 3

\* MediaError codes 1..4
ErrorCodes == 1..4
RetriedCodes == {2, 4}

\* setTimeout(callback, delay) in the page
pageSetTimeout(P, kind, delay) ==
    [P EXCEPT !.timeouts = Append(@, [kind |-> kind, st |-> "pending", left |-> delay])]

\* clearTimeout(handle) in the page
pageClearTimeout(P, t) ==
    IF P.timeouts[t].st = "pending"
    THEN [P EXCEPT !.timeouts[t].st = "cancelled"]
    ELSE P

\* retryConnection(): ignored while a retry is in progress, else reload the
\* source and keep isRetrying set for three seconds
retryConnection(P) ==
    IF P.isRetrying THEN [P EXCEPT !.event = "retryIgnored"]
    ELSE pageSetTimeout([P EXCEPT !.isRetrying = TRUE,
                                  !.playerError = NULL,
                                  !.awaiting = FALSE,
                                  !.event = "reload"],
                        "reset", RetryingWindow)

\* scheduleAutoRetry() without the clearTimeout of the previous handle
scheduleAutoRetry_noClear(P) ==
    [pageSetTimeout(P, "auto", RetryDelay) EXCEPT !.retryTimeout = Len(P.timeouts) + 1]

\* scheduleAutoRetry()
scheduleAutoRetry(P) ==
    LET P1 == IF P.retryTimeout # NULL THEN pageClearTimeout(P, P.retryTimeout) ELSE P
    IN  [pageSetTimeout(P1, "auto", RetryDelay) EXCEPT !.retryTimeout = Len(P1.timeouts) + 1]

\* handlePlayerError(error) with player.error().code = code
handlePlayerError(P, code) ==
    LET P1 == [P EXCEPT !.playerError = code, !.event = "error"]
    IN  IF code \in RetriedCodes
        THEN scheduleAutoRetry([P1 EXCEPT !.awaiting = TRUE])
        ELSE P1

\* the callback of the automatic retry timeout
autoRetryCallback(P, t) ==
    LET P1 == retryConnection([P EXCEPT !.timeouts[t].st = "fired"])
    IN  [P1 EXCEPT !.event = IF P.isRetrying THEN "autoRetryIgnored" ELSE "autoReload"]

\* the callback that ends the retry window
retryWindowCallback(P, t) ==
    [P EXCEPT !.timeouts[t].st = "fired", !.isRetrying = FALSE, !.event = "retryOver"]

PendingTimeouts(P, kind) ==
    { t \in 1..Len(P.timeouts) :
        P.timeouts[t].st = "pending" /\ P.timeouts[t].kind = kind }

ServerUntouched ==
    UNCHANGED <<streams, onStatusChange, procs, signals, timers, hls, serverUp, arg, ret,
                stopRequested, staleTimers, pub, last>>

\* player.on("error", handlePlayerError)
PlayerError(code) ==
    /\ page.playerError = NULL
    /\ Len(page.timeouts) + 2 <= MaxTimeouts
    /\ page' = handlePlayerError(page, code)
    /\ ServerUntouched

\* click on the retry button
ClickRetry ==
    /\ Len(page.timeouts) + 1 + Cardinality(PendingTimeouts(page, "auto")) <= MaxTimeouts
    /\ page' = retryConnection(page)
    /\ ServerUntouched

\* the timer queue runs a due timeout
TimeoutFire(t) ==
    /\ t <= Len(page.timeouts)
    /\ page.timeouts[t].st = "pending"
    /\ page.timeouts[t].left = 0
    /\ page' = IF page.timeouts[t].kind = "auto"
               THEN autoRetryCallback(page, t)
               ELSE retryWindowCallback(page, t)
    /\ ServerUntouched

\* one second passes: no timeout is due, some timeout is pending
PageTick ==
    /\ \E t \in 1..Len(page.timeouts) : page.timeouts[t].st = "pending"
    /\ \A t \in 1..Len(page.timeouts) :
          page.timeouts[t].st = "pending" => page.timeouts[t].left > 0
    /\ page' = [page EXCEPT
                  !.timeouts = [ t \in 1..Len(page.timeouts) |->
                                   IF page.timeouts[t].st = "pending"
                                   THEN [page.timeouts[t] EXCEPT !.left = @ - 1]
                                   ELSE page.timeouts[t] ],
                  !.event = "tick"]
    /\ ServerUntouched

InitPlayer ==
    /\ Built
    /\ arg = NotCalled
    /\ ret = NotCalled

NextPlayer ==
    \/ \E code \in ErrorCodes : PlayerError(code)
    \/ ClickRetry
    \/ \E t \in 1..MaxTimeouts : TimeoutFire(t)
    \/ PageTick

\* the event loop runs due timeouts and time passes
SpecPlayer ==
    /\ InitPlayer
    /\ [][NextPlayer]_vars
    /\ WF_vars(PageTick)
    /\ WF_vars(\E t \in 1..MaxTimeouts : TimeoutFire(t))

\* C39: every error of code 2 or 4 is eventually followed by a reload of the
\* source; at most one automatic-retry timeout is pending at any time; a
\* retry requested while a retry is in progress changes nothing and reloads
\* nothing.
C39_PlayerErrorsAreRetried ==
    /\ (page.awaiting ~> ~page.awaiting)
    /\ [](Cardinality(PendingTimeouts(page, "auto")) <= 1)
    /\ [][ page.isRetrying =>
             /\ page'.event \notin {"reload", "autoReload"}
             /\ page'.isRetrying \/ page'.event = "retryOver"
             /\ page'.event \in {"retryIgnored", "autoRetryIgnored"} =>
                   (/\ page'.playerError = page.playerError
                    /\ page'.awaiting = page.awaiting
                    /\ Len(page'.timeouts) = Len(page.timeouts)) ]_vars

\* a second error re-armed the automatic retry after the first timeout was
\* cancelled, and that retry reloaded the source
C39_AutoRetryReloadedWitness ==
    /\ page.event = "autoReload"
    /\ ~page.awaiting
    /\ page.playerError = NULL
    /\ \E t \in 1..Len(page.timeouts) :
          page.timeouts[t].kind = "auto" /\ page.timeouts[t].st = "cancelled"

====
